---- MODULE Spec2Model ----
(***************************************************************************)
(* Model of matrix_fact/abnmf.py: the ABNMF engine (augmented binary       *)
(* matrix factorization).  The engine keeps two dense float matrices W     *)
(* (D x K) and H (K x N), the regularization scalars _lamb_W / _lamb_H and *)
(* the augment block w_augments that is written over the last columns of   *)
(* W after every W-update.                                                 *)
(*                                                                         *)
(* Numbers are binary floating-point values m * 2^e with a MantBits-bit    *)
(* mantissa, rounded to nearest (ties to even) after every operation, as   *)
(* numpy's float64 arithmetic does with 53 bits.  The exponent range is    *)
(* not limited: overflow to infinity is outside the model; inf and nan     *)
(* arise only from a division by zero.                                     *)
(***************************************************************************)
EXTENDS Integers, Sequences, FiniteSets, TLC

\* ------------------------------------------------------------------------
\* Bounds of the model
\* ------------------------------------------------------------------------
\* bits of a float's mantissa (float64 has 53)
MantBits == 8

\* largest niter a factorize call is given
MaxIter == 2

\* factorize calls made on one engine
MaxCalls == 2

\* ------------------------------------------------------------------------
\* Floating-point arithmetic (numpy float64, narrowed to MantBits bits)
\* ------------------------------------------------------------------------
Pow2(n) == 2 ^ n

\* the number of bits of n >= 0
RECURSIVE BitLen(_)
BitLen(n) ==
    IF n >= 65536 THEN 16 + BitLen(n \div 65536)
    ELSE IF n >= 256 THEN 8 + BitLen(n \div 256)
    ELSE IF n >= 16 THEN 4 + BitLen(n \div 16)
    ELSE IF n >= 4 THEN 2 + BitLen(n \div 4)
    ELSE IF n >= 2 THEN 2
    ELSE n

Abs(n) == IF n < 0 THEN -n ELSE n

Sign(n) == IF n < 0 THEN -1 ELSE IF n > 0 THEN 1 ELSE 0

Fin(m, e) == [k |-> "fin", m |-> m, e |-> e]

FZero == Fin(0, 0)

FNaN == [k |-> "nan", m |-> 0, e |-> 0]

FInf(s) == [k |-> "inf", m |-> s, e |-> 0]

\* q rounded to nearest, ties to even, given the remainder r it left of 2 * half
RoundUp(q, r, half) == IF r > half \/ (r = half /\ q % 2 = 1) THEN q + 1 ELSE q

\* n >= 0 shifted right by k >= 1 bits, rounded to nearest, ties to even
RoundShift(n, k) == RoundUp(n \div Pow2(k), n % Pow2(k), Pow2(k - 1))

\* sign s, magnitude a > 0 of k + MantBits bits, exponent e
NormBits(s, a, e, k) ==
    IF k <= 0 THEN Fin(s * a * Pow2(-k), e + k)
    ELSE IF a >= Pow2(MantBits + k) - Pow2(k - 1)
         THEN Fin(s * Pow2(MantBits - 1), e + k + 1)
         ELSE Fin(s * RoundShift(a, k), e + k)

\* the float nearest to m * 2^e, its mantissa normalised to MantBits bits
Norm(m, e) ==
    IF m = 0 THEN FZero
    ELSE NormBits(Sign(m), Abs(m), e, BitLen(Abs(m)) - MantBits)

FromInt(n) == Norm(n, 0)

FNeg(a) == [a EXCEPT !.m = -a.m]

\* a + b of finite a and b
FinAdd(a, b) ==
    IF a.m = 0 THEN b
    ELSE IF b.m = 0 THEN a
    ELSE IF a.e >= b.e
         THEN (IF a.e - b.e > MantBits + 2 THEN a
               ELSE Norm(a.m * Pow2(a.e - b.e) + b.m, b.e))
         ELSE (IF b.e - a.e > MantBits + 2 THEN b
               ELSE Norm(b.m * Pow2(b.e - a.e) + a.m, a.e))

FAdd(a, b) ==
    IF a.k = "fin" /\ b.k = "fin" THEN FinAdd(a, b)
    ELSE IF a.k = "nan" \/ b.k = "nan" THEN FNaN
    ELSE IF a.k = "inf" /\ b.k = "inf" THEN (IF a.m = b.m THEN a ELSE FNaN)
    ELSE IF a.k = "inf" THEN a
    ELSE b

FSub(a, b) == FAdd(a, FNeg(b))

FMul(a, b) ==
    IF a.k = "fin" /\ b.k = "fin" THEN Norm(a.m * b.m, a.e + b.e)
    ELSE IF a.k = "nan" \/ b.k = "nan" THEN FNaN
    ELSE IF a.m = 0 \/ b.m = 0 THEN FNaN
    ELSE FInf(Sign(a.m) * Sign(b.m))

\* a / b of finite a # 0 and b # 0: the quotient to MantBits + 3 bits, its last
\* bit set when the division left a remainder
FinDiv(a, b) ==
    Norm(Sign(a.m) * Sign(b.m)
           * (2 * ((Abs(a.m) * Pow2(MantBits + 2)) \div Abs(b.m))
              + (IF (Abs(a.m) * Pow2(MantBits + 2)) % Abs(b.m) = 0 THEN 0 ELSE 1)),
         a.e - b.e - (MantBits + 2) - 1)

FDiv(a, b) ==
    IF a.k = "nan" \/ b.k = "nan" THEN FNaN
    ELSE IF a.k = "inf" THEN (IF b.k = "inf" THEN FNaN
                              ELSE FInf(a.m * (IF b.m < 0 THEN -1 ELSE 1)))
    ELSE IF b.k = "inf" THEN FZero
    ELSE IF b.m = 0 THEN (IF a.m = 0 THEN FNaN ELSE FInf(Sign(a.m)))
    ELSE IF a.m = 0 THEN FZero
    ELSE FinDiv(a, b)

\* x ** 2 and x ** 3 (numpy power), each rounded once
FSquare(a) == FMul(a, a)

FCube(a) ==
    IF a.k = "fin" THEN Norm(a.m * a.m * a.m, 3 * a.e) ELSE FMul(a, FMul(a, a))

\* order of floats (nan compares false with everything)
FLt(a, b) ==
    /\ a.k # "nan" /\ b.k # "nan"
    /\ a # b
    /\ LET d == FSub(b, a) IN d.k # "nan" /\ d.m > 0

FLe(a, b) == a.k # "nan" /\ b.k # "nan" /\ (a = b \/ FLt(a, b))

\* the integer root of n, between lo (lo * lo <= n) and hi (n < hi * hi)
RECURSIVE SqrtBetween(_, _, _)
SqrtBetween(n, lo, hi) ==
    IF hi - lo <= 1 THEN lo
    ELSE IF ((lo + hi) \div 2) * ((lo + hi) \div 2) <= n
         THEN SqrtBetween(n, (lo + hi) \div 2, hi)
         ELSE SqrtBetween(n, lo, (lo + hi) \div 2)

FSqrtFloor(n) == SqrtBetween(n, 0, Pow2(MantBits + 2))

\* numpy sqrt: the root rounded once; nan for a negative argument
FSqrt(a) ==
    IF a.k = "nan" THEN FNaN
    ELSE IF a.m < 0 THEN FNaN
    ELSE IF a.k = "inf" \/ a.m = 0 THEN a
    ELSE LET s == IF (a.e - (MantBits + 2)) % 2 = 0 THEN MantBits + 2 ELSE MantBits + 3
             n == a.m * Pow2(s)
             r == FSqrtFloor(n)
             sticky == IF r * r = n THEN 0 ELSE 1
         IN  Norm(2 * r + sticky, ((a.e - s) \div 2) - 1)

\* ------------------------------------------------------------------------
\* Dense matrices: a matrix is a sequence of rows, M[i][j]
\* ------------------------------------------------------------------------
Rows(M) == Len(M)

Cols(M) == IF Len(M) = 0 THEN 0 ELSE Len(M[1])

Shape(M) == <<Rows(M), Cols(M)>>

\* an array given entry by entry is built at once
Tuple(f) == f \o <<>>

FloatMat(M) == Tuple([i \in 1..(Len(M)) |-> Tuple([j \in 1..(Cols(M)) |-> FromInt(M[i][j])])])

Transpose(M) == Tuple([i \in 1..(Cols(M)) |-> Tuple([j \in 1..(Rows(M)) |-> M[j][i]])])

\* sum over k = 1..n of A[i][k] * B[k][j], added in index order
RECURSIVE DotSum(_, _, _, _, _)
DotSum(A, B, i, j, n) ==
    IF n = 0 THEN FZero
    ELSE FAdd(DotSum(A, B, i, j, n - 1), FMul(A[i][n], B[n][j]))

\* np.dot(A, B)
Dot(A, B) == Tuple([i \in 1..(Rows(A)) |-> Tuple([j \in 1..(Cols(B)) |-> DotSum(A, B, i, j, Rows(B))])])

\* elementwise operations of numpy arrays
MatAdd(A, B) == Tuple([i \in 1..(Rows(A)) |-> Tuple([j \in 1..(Cols(A)) |-> FAdd(A[i][j], B[i][j])])])

MatSub(A, B) == Tuple([i \in 1..(Rows(A)) |-> Tuple([j \in 1..(Cols(A)) |-> FSub(A[i][j], B[i][j])])])

MatMul(A, B) == Tuple([i \in 1..(Rows(A)) |-> Tuple([j \in 1..(Cols(A)) |-> FMul(A[i][j], B[i][j])])])

MatDiv(A, B) == Tuple([i \in 1..(Rows(A)) |-> Tuple([j \in 1..(Cols(A)) |-> FDiv(A[i][j], B[i][j])])])

MatScale(c, A) == Tuple([i \in 1..(Rows(A)) |-> Tuple([j \in 1..(Cols(A)) |-> FMul(c, A[i][j])])])

MatAddScalar(A, c) == Tuple([i \in 1..(Rows(A)) |-> Tuple([j \in 1..(Cols(A)) |-> FAdd(A[i][j], c)])])

MatSquare(A) == Tuple([i \in 1..(Rows(A)) |-> Tuple([j \in 1..(Cols(A)) |-> FSquare(A[i][j])])])

MatCube(A) == Tuple([i \in 1..(Rows(A)) |-> Tuple([j \in 1..(Cols(A)) |-> FCube(A[i][j])])])

\* the entries of M in row-major order
Flat(M) ==
    Tuple([n \in 1..(Rows(M) * Cols(M)) |-> M[((n - 1) \div Cols(M)) + 1][((n - 1) % Cols(M)) + 1]])

RECURSIVE SeqSum(_, _)
SeqSum(s, n) == IF n = 0 THEN FZero ELSE FAdd(SeqSum(s, n - 1), s[n])

\* np.sum(M)
MatSum(M) == SeqSum(Flat(M), Rows(M) * Cols(M))

\* list(range(a, b))
Range(a, b) == Tuple([n \in 1..(IF b > a THEN b - a ELSE 0) |-> a + n - 1])

\* ------------------------------------------------------------------------
\* Program constants
\* ------------------------------------------------------------------------
\* _LAMB_INCREASE_W = 1.1 and _LAMB_INCREASE_H = 1.1
LAMB_INCREASE_W == FDiv(FromInt(11), FromInt(10))

LAMB_INCREASE_H == FDiv(FromInt(11), FromInt(10))

\* 10**-9, the floor added to both denominators
Eps == FDiv(FromInt(1), FromInt(1000000000))

\* an attribute that has not been assigned yet
Unset == [k |-> "unset", m |-> 0, e |-> 0]

\* ------------------------------------------------------------------------
\* The update rules, as functions of the fields they read
\* ------------------------------------------------------------------------
\* H1 = np.dot(W.T, data) + 3.0*_lamb_H*(H**2)
H1(d, w, h, lh) ==
    MatAdd(Dot(Transpose(w), d), MatScale(FMul(FromInt(3), lh), MatSquare(h)))

\* mutant: the denominator without its floor
H2_NoFloor(d, w, h, lh) ==
    MatAdd(MatAdd(Dot(Dot(Transpose(w), w), h),
                  MatScale(FMul(FromInt(2), lh), MatCube(h))),
           MatScale(lh, h))

\* H2 = np.dot(np.dot(W.T, W), H) + 2*_lamb_H*(H**3) + _lamb_H*H + 10**-9
H2(d, w, h, lh) ==
    MatAddScalar(
        MatAdd(MatAdd(Dot(Dot(Transpose(w), w), h),
                      MatScale(FMul(FromInt(2), lh), MatCube(h))),
               MatScale(lh, h)),
        Eps)

\* H *= H1/H2
NewH(d, w, h, lh) == MatMul(h, MatDiv(H1(d, w, h, lh), H2(d, w, h, lh)))

\* W1 = np.dot(data, H.T) + 3.0*_lamb_W*(W**2)
W1(d, w, h, lw) ==
    MatAdd(Dot(d, Transpose(h)), MatScale(FMul(FromInt(3), lw), MatSquare(w)))

\* W2 = np.dot(W, np.dot(H, H.T)) + 2.0*_lamb_W*(W**3) + _lamb_W*W + 10**-9
W2(d, w, h, lw) ==
    MatAddScalar(
        MatAdd(MatAdd(Dot(w, Dot(h, Transpose(h))),
                      MatScale(FMul(FromInt(2), lw), MatCube(w))),
               MatScale(lw, w)),
        Eps)

\* mutant: W = W1/W2, the factor W dropped
MultW_Assign(d, w, h, lw) == MatDiv(W1(d, w, h, lw), W2(d, w, h, lw))

\* W *= W1/W2
MultW(d, w, h, lw) == MatMul(w, MatDiv(W1(d, w, h, lw), W2(d, w, h, lw)))

\* mutant: the block taken at the first columns
AugmentsIdx_FirstColumns(shape, aug, nb) ==
    [rows |-> Range(0, shape[1]), cols |-> Range(0, Cols(aug))]

\* w_augments_idx = np.ix_(m_range_w, n_range_w): the rows and the columns
\* (0-based, as in the code) of the constrained block
AugmentsIdx(shape, aug, nb) ==
    [rows |-> Range(0, shape[1]), cols |-> Range(nb - Cols(aug), nb)]

\* position of v in the index list s, 0 when it is not in it
IndexOf(s, v) == IF \E n \in 1..Len(s) : s[n] = v
                 THEN CHOOSE n \in 1..Len(s) : s[n] = v ELSE 0

\* W[w_augments_idx] = w_augments
Overwrite(w, idx, aug) ==
    Tuple([i \in 1..Rows(w) |-> Tuple([j \in 1..Cols(w) |->
        IF IndexOf(idx.rows, i - 1) > 0 /\ IndexOf(idx.cols, j - 1) > 0
        THEN aug[IndexOf(idx.rows, i - 1)][IndexOf(idx.cols, j - 1)]
        ELSE w[i][j]])])

\* mutant: _update_w without its overwrite
NewW_NoOverwrite(d, w, h, lw, idx, aug) == MultW(d, w, h, lw)

\* the whole of _update_w
NewW(d, w, h, lw, idx, aug) == Overwrite(MultW(d, w, h, lw), idx, aug)

\* mutant: the second assertion with < for <=
ShapesOk_Strict(d, aug, nb) == Rows(aug) = Rows(d) /\ Cols(aug) < nb

\* the two assertions of __init__
ShapesOk(d, aug, nb) == Rows(aug) = Rows(d) /\ Cols(aug) <= nb

\* self._lamb_W = 1.0/niter
InitialLamb(niter) == FDiv(FromInt(1), FromInt(niter))

\* frobenius_norm of the driver: sqrt(sum((data - W.H)**2))
FrobeniusNorm(d, w, h) == FSqrt(MatSum(MatSquare(MatSub(d, Dot(w, h)))))

\* ------------------------------------------------------------------------
\* Inputs
\* ------------------------------------------------------------------------
\* num_bases of the docstring's examples
DocNumBases == 2

\* seeds of W: uniform positive entries, and the W of the docstring
UniformW(r, c) == Tuple([i \in 1..r |-> Tuple([j \in 1..c |-> FDiv(FromInt(1), FromInt(2))])])

DocW(r, c) == Tuple([i \in 1..r |-> Tuple([j \in 1..c |-> IF i = j THEN FromInt(1) ELSE FZero])])

\* the two examples of the class docstring: a data set whose W is seeded
\* before the first call, and one whose W is set to the W of the docstring
DocCases ==
    { [data |-> FloatMat(<< <<1, 0, 1>>, <<0, 1, 1>> >>),
       seedsW |-> {UniformW(2, DocNumBases), DocW(2, DocNumBases)}],
      [data |-> FloatMat(<< <<0>>, <<1>> >>),
       seedsW |-> {DocW(2, DocNumBases)}] }

\* seeds of H
SeedsH(r, c) == { Tuple([i \in 1..r |-> Tuple([j \in 1..c |-> FromInt((i + j + 1) % 2)])]) }

\* augment blocks of r rows and c columns: one of zeros and ones, one with
\* negative entries
AugInputs(r, c) ==
    IF c = 0 THEN { Tuple([i \in 1..r |-> Tuple([j \in 1..0 |-> FZero])]) }
    ELSE { Tuple([i \in 1..r |-> Tuple([j \in 1..c |-> FromInt((i + j + 1) % 2)])]),
           Tuple([i \in 1..r |-> Tuple([j \in 1..c |-> FromInt(2 * ((i + j) % 2) - 1)])]) }

\* h_augments: None (the default), or an array given beside an empty w_augments
HAugInputs(c) == IF c = 0 THEN { <<>>, FloatMat(<< <<1>> >>) } ELSE { <<>> }

\* ------------------------------------------------------------------------
\* State
\* ------------------------------------------------------------------------
VARIABLES
    pc,             \* "new", "failed", "ready", or the driver's position "w", "h", "err"
    outcome,        \* how the last call ended
    data, num_bases, w_augments, h_augments, w_augments_idx,
    W, H, lamb_W, lamb_H,
    call,           \* the arguments of the last factorize call
    args,           \* the arguments the driver was handed
    iter,           \* the driver's loop index, 1-based
    ferr,           \* the errors recorded by the call
    calls,          \* factorize calls made
    start,          \* history: the fields as the call began
    hist            \* history: the update steps of the call, each with the fields it left

vars == <<pc, outcome, data, num_bases, w_augments, h_augments, w_augments_idx,
          W, H, lamb_W, lamb_H, call, args, iter, ferr, calls, start, hist>>

engine == <<data, num_bases, w_augments, h_augments, w_augments_idx>>

NoArgs == [niter |-> 0, compute_w |-> FALSE, compute_h |-> FALSE, compute_err |-> FALSE]

\* W, H and the lambdas a step works from; left_W, left_H: the lambdas the
\* call found
Snapshot(w, h, lw, lh, fw, fh) ==
    [W |-> w, H |-> h, lamb_W |-> lw, lamb_H |-> lh, left_W |-> fw, left_H |-> fh]

Init ==
    /\ pc = "new"
    /\ outcome = "none"
    /\ data = <<>> /\ num_bases = 0 /\ w_augments = <<>> /\ h_augments = <<>>
    /\ w_augments_idx = [rows |-> <<>>, cols |-> <<>>]
    /\ W = <<>> /\ H = <<>>
    /\ lamb_W = Unset /\ lamb_H = Unset
    /\ call = NoArgs
    /\ args = NoArgs
    /\ iter = 0
    /\ ferr = <<>>
    /\ calls = 0
    /\ start = Snapshot(<<>>, <<>>, Unset, Unset, Unset, Unset)
    /\ hist = <<>>

\* ABNMF.__init__(data, w_augments, h_augments, num_bases); W and H are seeded
\* before the first factorize call
Construct(d, aug, haug, nb, w0, h0) ==
    /\ pc = "new"
    /\ data' = d
    /\ num_bases' = nb
    /\ w_augments' = aug
    /\ h_augments' = haug
    /\ IF ShapesOk(d, aug, nb)
       THEN /\ w_augments_idx' = AugmentsIdx(Shape(d), aug, nb)
            /\ W' = w0
            /\ H' = h0
            /\ pc' = "ready"
            /\ outcome' = "constructed"
       ELSE /\ pc' = "failed"
            /\ outcome' = "AssertionError"
            /\ UNCHANGED <<w_augments_idx, W, H>>
    /\ UNCHANGED <<lamb_W, lamb_H, call, args, iter, ferr, calls, start, hist>>

\* mutants: an argument not handed on
DriverArgs_AlwaysW(niter, cw, ch, ce) ==
    [niter |-> niter, compute_w |-> TRUE, compute_h |-> ch, compute_err |-> ce]

DriverArgs_NoErr(niter, cw, ch, ce) ==
    [niter |-> niter, compute_w |-> cw, compute_h |-> ch, compute_err |-> FALSE]

\* the arguments ABNMF.factorize hands to MatrixFactBase.factorize
DriverArgs(niter, cw, ch, ce) ==
    [niter |-> niter, compute_w |-> cw, compute_h |-> ch, compute_err |-> ce]

\* the driver's loop: the next step that runs from stage s (1: W-update,
\* 2: H-update, 3: error) of iteration i, or "ready" when the loop is over
RECURSIVE Seek(_, _, _)
Seek(i, s, a) ==
    IF i > a.niter THEN [pc |-> "ready", iter |-> i]
    ELSE IF s = 1 THEN (IF a.compute_w THEN [pc |-> "w", iter |-> i] ELSE Seek(i, 2, a))
    ELSE IF s = 2 THEN (IF a.compute_h THEN [pc |-> "h", iter |-> i] ELSE Seek(i, 3, a))
    ELSE (IF a.compute_err THEN [pc |-> "err", iter |-> i] ELSE Seek(i + 1, 1, a))

Goto(pos) ==
    /\ pc' = pos.pc
    /\ iter' = pos.iter
    /\ outcome' = IF pos.pc = "ready" THEN "returned" ELSE "running"

\* ABNMF.factorize(niter, compute_w, compute_h, show_progress, compute_err)
factorize(niter, cw, ch, ce) ==
    /\ pc = "ready"
    /\ calls < MaxCalls
    /\ calls' = calls + 1
    /\ call' = [niter |-> niter, compute_w |-> cw, compute_h |-> ch, compute_err |-> ce]
    /\ hist' = <<>>
    /\ IF niter = 0
       THEN \* 1.0/niter raises ZeroDivisionError
            /\ outcome' = "ZeroDivisionError"
            /\ start' = Snapshot(W, H, lamb_W, lamb_H, lamb_W, lamb_H)
            /\ UNCHANGED <<pc, iter, lamb_W, lamb_H, args, ferr>>
       ELSE /\ lamb_W' = InitialLamb(niter)
            /\ lamb_H' = InitialLamb(niter)
            /\ args' = DriverArgs(niter, cw, ch, ce)
            /\ ferr' = <<>>
            /\ start' = Snapshot(W, H, lamb_W', lamb_H', lamb_W, lamb_H)
            /\ Goto(Seek(1, 1, args'))
    /\ UNCHANGED <<engine, W, H>>

Step(op, i, w, h, lw, lh) ==
    [op |-> op, iter |-> i, W |-> w, H |-> h, lamb_W |-> lw, lamb_H |-> lh]

\* ABNMF._update_w
update_w ==
    /\ pc = "w"
    /\ W' = NewW(data, W, H, lamb_W, w_augments_idx, w_augments)
    /\ hist' = Append(hist, Step("W", iter, W', H, lamb_W, lamb_H))
    /\ Goto(Seek(iter, 2, args))
    /\ UNCHANGED <<engine, H, lamb_W, lamb_H, call, args, ferr, calls, start>>

\* mutant: lamb_W left as it is
IncreaseW_Skip(lw) == lw

\* self._lamb_W = self._LAMB_INCREASE_W * self._lamb_W
IncreaseW(lw) == FMul(LAMB_INCREASE_W, lw)

\* mutant: lamb_H divided by its factor
IncreaseH_Decay(lh) == FDiv(lh, LAMB_INCREASE_H)

\* self._lamb_H = self._LAMB_INCREASE_H * self._lamb_H
IncreaseH(lh) == FMul(LAMB_INCREASE_H, lh)

\* ABNMF._update_h
update_h ==
    /\ pc = "h"
    /\ H' = NewH(data, W, H, lamb_H)
    /\ lamb_W' = IncreaseW(lamb_W)
    /\ lamb_H' = IncreaseH(lamb_H)
    /\ hist' = Append(hist, Step("H", iter, W, H', lamb_W', lamb_H'))
    /\ Goto(Seek(iter, 3, args))
    /\ UNCHANGED <<engine, W, call, args, ferr, calls, start>>

\* the driver records the error of the iteration
record_err ==
    /\ pc = "err"
    /\ ferr' = Append(ferr, FrobeniusNorm(data, W, H))
    /\ Goto(Seek(iter + 1, 1, args))
    /\ UNCHANGED <<engine, W, H, lamb_W, lamb_H, call, args, calls, start, hist>>

Next ==
    \/ \E case \in DocCases :
       \E r \in {Rows(case.data), Rows(case.data) + 1}, c \in 0..(DocNumBases + 1) :
       \E aug \in AugInputs(r, c), haug \in HAugInputs(c) :
       \E w0 \in case.seedsW, h0 \in SeedsH(DocNumBases, Cols(case.data)) :
          Construct(case.data, aug, haug, DocNumBases, w0, h0)
    \/ \E niter \in 0..MaxIter, cw \in BOOLEAN, ch \in BOOLEAN, ce \in BOOLEAN :
          factorize(niter, cw, ch, ce)
    \/ update_w
    \/ update_h
    \/ record_err

Spec == Init /\ [][Next]_vars

\* ------------------------------------------------------------------------
\* Properties
\* ------------------------------------------------------------------------
Steps == Len(hist)

\* the fields step j worked from: those the step before it left, or those the
\* call began with
Prev(j) == IF j = 1 THEN start ELSE hist[j - 1]

\* the fields as they are after all of iteration i
After(i) ==
    IF \E j \in 1..Steps : hist[j].iter <= i
    THEN hist[CHOOSE j \in 1..Steps :
                  hist[j].iter <= i /\ \A n \in (j + 1)..Steps : hist[n].iter > i]
    ELSE start

NumH == Cardinality({j \in 1..Steps : hist[j].op = "H"})

Returned == pc = "ready" /\ outcome = "returned"

InLoop == pc \in {"w", "h", "err"} \/ Returned

\* columns [K - A_w, K) of w, all rows
AugBlock(w) ==
    Tuple([i \in 1..(Rows(w)) |-> Tuple([j \in 1..(Cols(w_augments)) |-> w[i][num_bases - Cols(w_augments) + j]])])

AllAtLeast(M, c) == \A i \in 1..Rows(M), j \in 1..Cols(M) : FLe(c, M[i][j])

NonNeg(M) == \A i \in 1..Rows(M), j \in 1..Cols(M) : M[i][j].k # "nan" /\ M[i][j].m >= 0

ToSet(s) == { s[n] : n \in 1..Len(s) }

Finite(M) == \A i \in 1..Rows(M), j \in 1..Cols(M) : M[i][j].k = "fin"

\* (1/niter) * 1.1^i, multiplied up one factor at a time
RECURSIVE Schedule(_, _)
Schedule(niter, i) ==
    IF i = 0 THEN FDiv(FromInt(1), FromInt(niter))
    ELSE FMul(FDiv(FromInt(11), FromInt(10)), Schedule(niter, i - 1))

C2_LambdaSchedule ==
    InLoop => /\ lamb_W = Schedule(call.niter, NumH)
              /\ lamb_H = Schedule(call.niter, NumH)

\* a second call, past an H-update, that found lambdas other than its own
C2_Witness ==
    /\ calls = 2
    /\ InLoop
    /\ NumH >= 1
    /\ start.left_W # Unset
    /\ start.left_W # Schedule(call.niter, 0)
    /\ hist[Steps].op = "W"

\* lamb_W and lamb_H at the end of iteration i of the call
LambAtEnd(i) == <<After(i).lamb_W, After(i).lamb_H>>

Increasing(i) ==
    /\ FLt(LambAtEnd(i)[1], LambAtEnd(i + 1)[1])
    /\ FLt(LambAtEnd(i)[2], LambAtEnd(i + 1)[2])

\* C3 as stated: in every call, both lambdas are strictly greater at the end
\* of iteration j + 1 than at the end of iteration j.
C3_AsStated ==
    Returned => \A j \in 1..(call.niter - 1) : Increasing(j)

\* C3 amended: in every call that updates H (compute_h), both lambdas are
\* strictly greater at the end of iteration j + 1 than at the end of
\* iteration j.
C3_IncreasingWithH ==
    (Returned /\ call.compute_h) => \A j \in 1..(call.niter - 1) : Increasing(j)

C3_Witness ==
    /\ Returned
    /\ call.compute_h
    /\ call.niter >= 2
    /\ Increasing(1)

\* C4: construction fails exactly when w_augments' row count differs from that
\* of data or its column count exceeds num_bases; a failed construction is
\* followed by no call and no update, and nothing else about the inputs
\* decides it.
C4_ConstructFailsIff ==
    pc # "new" =>
        /\ (pc = "failed") <=>
               (Rows(w_augments) # Rows(data) \/ Cols(w_augments) > num_bases)
        /\ (pc = "failed") <=> (outcome = "AssertionError")
        /\ pc = "failed" => calls = 0 /\ Steps = 0 /\ W = <<>> /\ H = <<>>

\* one column too many, the row count right
C4_Witness ==
    /\ pc = "failed"
    /\ Rows(w_augments) = Rows(data)
    /\ Cols(w_augments) = num_bases + 1

\* C5: factorize(niter = 0) returns as a run of zero iterations, W and H as
\* they were and no error recorded.
C5_ZeroIterationsNoOp ==
    (calls >= 1 /\ call.niter = 0 /\ pc = "ready") =>
        /\ outcome = "returned"
        /\ W = start.W /\ H = start.H
        /\ ferr = <<>>

\* C6 as stated: a call with compute_w and compute_h both false, niter >= 1,
\* leaves W and H as they were and records no error, whatever compute_err is.
C6_AsStated ==
    (Returned /\ ~call.compute_w /\ ~call.compute_h) =>
        /\ W = start.W /\ H = start.H
        /\ ferr = <<>>

\* C6 amended: such a call leaves W and H as they were (the last A_w columns
\* of W are not overwritten); it records no error when compute_err is false,
\* and niter errors, each that of the unchanged W and H, when it is true.
C6_NoUpdatesFrame ==
    (Returned /\ ~call.compute_w /\ ~call.compute_h) =>
        /\ W = start.W /\ H = start.H
        /\ Steps = 0
        /\ ~call.compute_err => ferr = <<>>
        /\ call.compute_err =>
               /\ Len(ferr) = call.niter
               /\ \A i \in 1..Len(ferr) : ferr[i] = FrobeniusNorm(data, start.W, start.H)

\* the block differs from w_augments and stays so, with errors recorded
C6_Witness ==
    /\ Returned /\ ~call.compute_w /\ ~call.compute_h /\ call.compute_err
    /\ call.niter >= 2
    /\ Cols(w_augments) >= 1
    /\ AugBlock(W) # w_augments
    /\ Len(ferr) = call.niter

\* C7: after a call with compute_err returns, ferr has niter entries and
\* entry i is the Frobenius error of the W and H left by all of iteration i.
C7_ErrAfterIteration ==
    (Returned /\ call.compute_err) =>
        /\ Len(ferr) = call.niter
        /\ \A i \in 1..Len(ferr) :
               ferr[i] = FrobeniusNorm(data, After(i).W, After(i).H)

\* two iterations of both updates: the error of the first is neither that of
\* the matrices before it nor that of the matrices midway through it
C7_Witness ==
    /\ Returned /\ call.compute_err /\ call.compute_w /\ call.compute_h
    /\ call.niter = 2
    /\ Steps = 4
    /\ ferr[1] # FrobeniusNorm(data, start.W, start.H)
    /\ ferr[1] # FrobeniusNorm(data, hist[1].W, hist[1].H)
    /\ ferr[1] # ferr[2]

\* C8: with compute_w and compute_h, the steps of a call alternate W, H, W, H,
\* ..., one pair per iteration; each W-update works from the H and lamb_W the
\* step before it left (the call's first from those the call began with),
\* each H-update from the W, augment block included, that the W-update of the
\* same iteration left; a returned call has made niter of each.
C8_UpdateOrder ==
    (InLoop /\ call.compute_w /\ call.compute_h) =>
        /\ \A j \in 1..Steps :
               /\ hist[j].op = IF j % 2 = 1 THEN "W" ELSE "H"
               /\ hist[j].iter = (j + 1) \div 2
        /\ Steps >= 1 =>
               LET p == Prev(Steps)
                   l == hist[Steps]
               IN  IF l.op = "W"
                   THEN /\ l.W = NewW(data, p.W, p.H, p.lamb_W, w_augments_idx, w_augments)
                        /\ l.H = p.H
                        /\ l.lamb_W = p.lamb_W /\ l.lamb_H = p.lamb_H
                   ELSE /\ l.H = NewH(data, p.W, p.H, p.lamb_H)
                        /\ l.W = p.W
                        /\ AugBlock(p.W) = w_augments
        /\ W = After(call.niter).W /\ H = After(call.niter).H
        /\ pc = "w" => Steps = 2 * (iter - 1)
        /\ pc = "h" => Steps = 2 * iter - 1
        /\ Returned => Steps = 2 * call.niter

\* the second W-update of a call: it worked from an H other than the call's
\* first and a lamb_W other than the call's first
C8_Witness ==
    /\ InLoop /\ call.compute_w /\ call.compute_h
    /\ Steps = 3
    /\ hist[3].op = "W"
    /\ Prev(3).H # start.H
    /\ Prev(3).lamb_W # start.lamb_W
    /\ hist[3].W # NewW(data, hist[1].W, start.H, start.lamb_W, w_augments_idx, w_augments)

\* the denominators of the H-update that made step j
Denominators(j) == H2(data, Prev(j).W, Prev(j).H, Prev(j).lamb_H)

NonNegInputs(j) ==
    /\ NonNeg(data) /\ NonNeg(Prev(j).W) /\ NonNeg(Prev(j).H)
    /\ FLt(FZero, Prev(j).lamb_H)

\* C9: an H-update of non-negative data, W and H with a positive lamb_H
\* divides by no entry below 10**-9 and leaves every entry of H finite and
\* non-negative.
C9_HUpdateSafe ==
    (Steps >= 1 /\ hist[Steps].op = "H" /\ NonNegInputs(Steps)) =>
        /\ AllAtLeast(Denominators(Steps), Eps)
        /\ Finite(hist[Steps].H)
        /\ NonNeg(hist[Steps].H)

\* an H-update one of whose denominators was the floor alone
C9_Witness ==
    /\ Steps >= 1 /\ hist[Steps].op = "H" /\ NonNegInputs(Steps)
    /\ (\E x \in ToSet(Flat(Denominators(Steps))) : x = Eps)
    /\ (\E x \in ToSet(Flat(hist[Steps].H)) : FLt(FZero, x))

Unconstrained(j) == j <= num_bases - Cols(w_augments)

\* C10: with data, the W and H the call began with and w_augments all
\* non-negative, every update step leaves at 0 each entry of H that was 0 and
\* each entry of W that was 0, but for the entries of W in the last A_w
\* columns that a W-update overwrote with w_augments.
C10_ZeroAbsorbing ==
    (Steps >= 1 /\ NonNeg(data) /\ NonNeg(start.W) /\ NonNeg(start.H) /\ NonNeg(w_augments)) =>
        LET p == Prev(Steps)
            l == hist[Steps]
        IN  /\ \A i \in 1..Rows(H), j \in 1..Cols(H) :
                   p.H[i][j] = FZero => l.H[i][j] = FZero
            /\ \A i \in 1..Rows(W), j \in 1..Cols(W) :
                   p.W[i][j] = FZero =>
                       \/ l.W[i][j] = FZero
                       \/ /\ ~Unconstrained(j)
                          /\ l.op = "W"
                          /\ l.W[i][j] = w_augments[i][j - (num_bases - Cols(w_augments))]

\* a W-update that left a 0 of a free column at 0 beside entries it changed,
\* and overwrote a 0 of the block with a positive augment
C10_Witness ==
    /\ Steps >= 1 /\ hist[Steps].op = "W"
    /\ NonNeg(data) /\ NonNeg(start.W) /\ NonNeg(start.H) /\ NonNeg(w_augments)
    /\ \E i \in 1..Rows(W), j \in 1..Cols(W) :
           Unconstrained(j) /\ Prev(Steps).W[i][j] = FZero /\ W[i][j] = FZero
    /\ \E i \in 1..Rows(W), j \in 1..Cols(W) :
           Unconstrained(j) /\ Prev(Steps).W[i][j] # W[i][j]
    /\ \E i \in 1..Rows(W), j \in 1..Cols(W) :
           ~Unconstrained(j) /\ Prev(Steps).W[i][j] = FZero /\ FLt(FZero, W[i][j])
    /\ \E i \in 1..Rows(H), j \in 1..Cols(H) : H[i][j] = FZero
====
